---- MODULE Spec2Model ----
(***************************************************************************)
(* macaw/core/retrieval/search_engine.py: the abstract Retrieval and      *)
(* ReRanker classes.  One Retrieval instance, the parameters bundle it     *)
(* shares by reference with its owner, and the call chain of get_results   *)
(* (query generation, logging, retrieval, optional re-ranking), one step   *)
(* per collaborator call.                                                  *)
(***************************************************************************)
EXTENDS Integers, Sequences, FiniteSets, TLC

\* ------------------------------------------------------------------ bounds
\* Longest conversation list handed to get_results.
MaxConvLen == 1

\* ------------------------------------------------------- Python values
\* Values are tagged records, so that None, a string, a list and an object
\* handle are all distinct and comparable.
None == [t |-> "None"]
Str(s) == [t |-> "str", s |-> s]
List(items) == [t |-> "list", items |-> items]
Obj(id) == [t |-> "obj", id |-> id]

\* What a call delivers: a returned value, or a raised error.
Return(v) == [kind |-> "return", val |-> v]
Raise(e) == [kind |-> "raise", err |-> e]
\* No get_results call has delivered anything (yet).
Pending == [kind |-> "pending"]

\* ------------------------------------------------------- inputs
Messages == {"weather today", "hello"}
\* conv_list: most recent message first.
ConvLists == UNION {[1..n -> Messages] : n \in 0..MaxConvLen}

Keys == {"query_generation", "logger", "reranker"}
\* What the owner may store under each key of the bundle.  A dict accepts
\* any value, None included.
ValuesFor(k) ==
  CASE k = "query_generation" -> {Obj("qg_const"), Obj("qg_first"), Obj("qg_fail"), None}
    [] k = "logger" -> {Obj("log_ok"), Obj("log_fail"), None}
    [] k = "reranker" -> {Obj("rr_stub"), Obj("rr_top1"), Obj("rr_base"), Obj("rr_fail"), None}
\* Concrete Retrieval subclasses, by what their retrieve does.
Subclasses == {"RetStub", "RetSuper", "RetFail", "RetLive"}

\* ------------------------------------------------------- state
VARIABLES
  params,            \* the bundle: a function from the keys present to values
  constructed,       \* a Retrieval instance exists
  subclass,          \* its concrete class
  query_generation,  \* self.query_generation
  ctor_outcome,      \* how the last constructor call ended
  ctor_keys,         \* keys the bundle had when the instance was constructed
  pc,                \* position inside get_results, "idle" outside of it
  conv_list,         \* argument of the running get_results
  query,             \* local of get_results
  result_list,       \* local of get_results
  trace,             \* collaborator calls made by the running get_results
  outcome,           \* what get_results delivered to its caller
  saved              \* an earlier outcome under the same bundle

vars == <<params, constructed, subclass, query_generation, ctor_outcome, ctor_keys,
          pc, conv_list, query, result_list, trace, outcome, saved>>

Unset == [t |-> "unset"]
NoSaved == [set |-> FALSE]
EmptyBundle == [k \in {} |-> None]

\* dict operations
HasKey(p, k) == k \in DOMAIN p
SetKey(p, k, v) == [x \in DOMAIN p \cup {k} |-> IF x = k THEN v ELSE p[x]]
DelKey(p, k) == [x \in DOMAIN p \ {k} |-> p[x]]

\* An attribute lookup such as v.rerank succeeds on objects only.
HasMethods(v) == v.t = "obj"

\* ------------------------------------------------------- collaborators
\* str(v) as the f-string applies it.
PyStr(v) == IF v.t = "str" THEN v.s ELSE "None"

\* The message handed to logger.info.
LogMessage(q) == "New query: " \o PyStr(q)

\* Retrieval.retrieve as the base class defines it: the body is `pass`.
BaseRetrieve == Return(None)

\* Variant: the base rerank refuses to run.
BaseRerankNotImplemented(q, conv, results, p) == Raise("NotImplementedError")

\* ReRanker.rerank as the base class defines it: the body is `pass`.
BaseRerank(q, conv, results, p) == Return(None)

\* query_generation.get_query(conv_list)
GetQuery(h, conv) ==
  CASE h.id = "qg_const" -> Return(Str("weather today"))
    [] h.id = "qg_first" -> IF conv = <<>> THEN Return(None) ELSE Return(Str(conv[1]))
    [] h.id = "qg_fail" -> Raise("QueryError")

\* params['logger'].info(msg)
Info(h, msg) ==
  CASE h.id = "log_ok" -> Return(None)
    [] h.id = "log_fail" -> Raise("LogError")

\* self.retrieve(query): the outcomes the subclass can produce.
Retrieve(cls, q) ==
  CASE cls = "RetStub" ->
         {Return(List(IF q = Str("weather today") THEN <<"doc1", "doc2">> ELSE <<>>))}
    [] cls = "RetSuper" -> {BaseRetrieve}
    [] cls = "RetFail" -> {Raise("RetrieveError")}
    [] cls = "RetLive" -> {Return(List(<<"doc1">>)), Return(List(<<"doc2", "doc1">>))}

\* params['reranker'].rerank(query, conv_list, result_list, params)
Rerank(h, q, conv, results, p) ==
  CASE h.id = "rr_stub" -> Return(List(<<"doc2">>))
    [] h.id = "rr_top1" ->
         IF results.t = "list"
         THEN Return(List(SubSeq(results.items, 1, IF Len(results.items) > 1 THEN 1 ELSE Len(results.items))))
         ELSE Raise("TypeError")
    [] h.id = "rr_base" -> BaseRerank(q, conv, results, p)
    [] h.id = "rr_fail" -> Raise("RerankError")

\* One collaborator call, as recorded in trace.
Event(op, on, args, res) == [op |-> op, on |-> on, args |-> args, res |-> res]

\* ------------------------------------------------------- get_results
\* Variant: the generator is looked up in the bundle on every call.
QueryGeneratorLive ==
  IF HasKey(params, "query_generation") THEN params["query_generation"] ELSE query_generation

\* The object get_query is called on.
QueryGenerator == query_generation

\* Variant: the candidates are fetched before the query is logged.
StepAfterRetrieveFirst(step) ==
  CASE step = "get_query" -> "retrieve"
    [] step = "retrieve" -> "log"
    [] step = "log" -> "branch"

\* The statement that follows a statement that returned.
StepAfter(step) ==
  CASE step = "get_query" -> "log"
    [] step = "log" -> "retrieve"
    [] step = "retrieve" -> "branch"

\* Variant: an entry that is None counts as no re-ranker.
UseRerankerTruthy(p) == HasKey(p, "reranker") /\ p["reranker"] # None

\* line 47
UseReranker(p) == HasKey(p, "reranker")

\* Variant: the re-ranker is handed a fresh bundle instead of self.params.
RerankArgsFreshParams(q, conv, results, p) == <<q, conv, results, EmptyBundle>>

\* line 48: the arguments of rerank
RerankArgs(q, conv, results, p) == <<q, conv, results, p>>

\* Variant: every failure is wrapped into one error type.
PropagateWrapped(err) == Raise("RetrievalError")

\* What the caller gets when a statement of get_results raised err.
Propagate(err) == Raise(err)

\* Variant: only the best candidate is returned.
ReturnCandidatesTop1(results) ==
  IF results.t = "list" /\ Len(results.items) > 1
  THEN Return(List(SubSeq(results.items, 1, 1)))
  ELSE Return(results)

\* line 49: return result_list
ReturnCandidates(results) == Return(results)

\* get_results ends and delivers out.
Deliver(out) ==
  /\ pc' = "done"
  /\ outcome' = out
  /\ UNCHANGED saved

\* ------------------------------------------------------- actions
\* The owner stores a value under a key of its bundle.
OwnerSet(k, v) ==
  /\ pc = "idle"
  /\ ~(HasKey(params, k) /\ params[k] = v)
  /\ params' = SetKey(params, k, v)
  /\ saved' = NoSaved
  /\ UNCHANGED <<constructed, subclass, query_generation, ctor_outcome, ctor_keys,
                 pc, conv_list, query, result_list, trace, outcome>>

\* The owner deletes a key of its bundle.
OwnerDel(k) ==
  /\ pc = "idle"
  /\ HasKey(params, k)
  /\ params' = DelKey(params, k)
  /\ saved' = NoSaved
  /\ UNCHANGED <<constructed, subclass, query_generation, ctor_outcome, ctor_keys,
                 pc, conv_list, query, result_list, trace, outcome>>

\* Variant: the constructor reads the generator with dict.get.
ConstructLenient(cls) ==
  /\ pc = "idle"
  /\ ~constructed
  /\ constructed' = TRUE
  /\ subclass' = cls
  /\ query_generation' = IF HasKey(params, "query_generation")
                         THEN params["query_generation"] ELSE None
  /\ ctor_outcome' = "ok"
  /\ ctor_keys' = DOMAIN params
  /\ UNCHANGED <<params, pc, conv_list, query, result_list, trace, outcome, saved>>

\* Variant: the constructor also requires the logger.
ConstructEager(cls) ==
  /\ pc = "idle"
  /\ ~constructed
  /\ IF HasKey(params, "query_generation") /\ HasKey(params, "logger")
     THEN /\ constructed' = TRUE
          /\ subclass' = cls
          /\ query_generation' = params["query_generation"]
          /\ ctor_outcome' = "ok"
          /\ ctor_keys' = DOMAIN params
     ELSE /\ ctor_outcome' = "KeyError"
          /\ UNCHANGED <<constructed, subclass, query_generation, ctor_keys>>
  /\ UNCHANGED <<params, pc, conv_list, query, result_list, trace, outcome, saved>>

\* Retrieval.__init__(params), reached through a subclass constructor.
Construct(cls) ==
  /\ pc = "idle"
  /\ ~constructed
  /\ IF HasKey(params, "query_generation")
     THEN /\ constructed' = TRUE
          /\ subclass' = cls
          /\ query_generation' = params["query_generation"]
          /\ ctor_outcome' = "ok"
          /\ ctor_keys' = DOMAIN params
     ELSE /\ ctor_outcome' = "KeyError"
          /\ UNCHANGED <<constructed, subclass, query_generation, ctor_keys>>
  /\ UNCHANGED <<params, pc, conv_list, query, result_list, trace, outcome, saved>>

\* Variant: get_results keeps its argument in the bundle.
CallStoring(conv) ==
  /\ pc = "idle"
  /\ constructed
  /\ pc' = "get_query"
  /\ conv_list' = conv
  /\ params' = SetKey(params, "conv_list", List(conv))
  /\ UNCHANGED <<constructed, subclass, query_generation, ctor_outcome, ctor_keys,
                 query, result_list, trace, outcome, saved>>

\* A caller enters get_results(conv).
Call(conv) ==
  /\ pc = "idle"
  /\ constructed
  /\ pc' = "get_query"
  /\ conv_list' = conv
  /\ UNCHANGED <<params, constructed, subclass, query_generation, ctor_outcome, ctor_keys,
                 query, result_list, trace, outcome, saved>>

\* line 44: query = self.query_generation.get_query(conv_list)
StepGetQuery ==
  /\ pc = "get_query"
  /\ IF ~HasMethods(QueryGenerator)
     THEN /\ Deliver(Propagate("AttributeError"))
          /\ UNCHANGED <<query, trace>>
     ELSE LET res == GetQuery(QueryGenerator, conv_list) IN
          /\ trace' = Append(trace, Event("get_query", QueryGenerator, <<conv_list>>, res))
          /\ IF res.kind = "raise"
             THEN Deliver(Propagate(res.err)) /\ UNCHANGED query
             ELSE /\ query' = res.val
                  /\ pc' = StepAfter("get_query")
                  /\ UNCHANGED <<outcome, saved>>
  /\ UNCHANGED <<params, constructed, subclass, query_generation, ctor_outcome, ctor_keys,
                 conv_list, result_list>>

\* line 45: self.params['logger'].info(f'New query: {query}')
StepLog ==
  /\ pc = "log"
  /\ IF ~HasKey(params, "logger")
     THEN Deliver(Propagate("KeyError")) /\ UNCHANGED trace
     ELSE IF ~HasMethods(params["logger"])
     THEN Deliver(Propagate("AttributeError")) /\ UNCHANGED trace
     ELSE LET msg == LogMessage(query)
              res == Info(params["logger"], msg) IN
          /\ trace' = Append(trace, Event("info", params["logger"], <<msg>>, res))
          /\ IF res.kind = "raise"
             THEN Deliver(Propagate(res.err))
             ELSE pc' = StepAfter("log") /\ UNCHANGED <<outcome, saved>>
  /\ UNCHANGED <<params, constructed, subclass, query_generation, ctor_outcome, ctor_keys,
                 conv_list, query, result_list>>

\* line 46: result_list = self.retrieve(query)
StepRetrieve ==
  /\ pc = "retrieve"
  /\ \E res \in Retrieve(subclass, query) :
       /\ trace' = Append(trace, Event("retrieve", Obj(subclass), <<query>>, res))
       /\ IF res.kind = "raise"
          THEN Deliver(Propagate(res.err)) /\ UNCHANGED result_list
          ELSE /\ result_list' = res.val
               /\ pc' = StepAfter("retrieve")
               /\ UNCHANGED <<outcome, saved>>
  /\ UNCHANGED <<params, constructed, subclass, query_generation, ctor_outcome, ctor_keys,
                 conv_list, query>>

\* lines 47-49: hand the candidates to the re-ranker, or return them.
StepBranch ==
  /\ pc = "branch"
  /\ IF UseReranker(params)
     THEN IF ~HasMethods(params["reranker"])
          THEN Deliver(Propagate("AttributeError")) /\ UNCHANGED trace
          ELSE LET args == RerankArgs(query, conv_list, result_list, params)
                   res == Rerank(params["reranker"], args[1], args[2], args[3], args[4]) IN
               /\ trace' = Append(trace, Event("rerank", params["reranker"], args, res))
               /\ IF res.kind = "raise"
                  THEN Deliver(Propagate(res.err))
                  ELSE Deliver(res)
     ELSE Deliver(ReturnCandidates(result_list)) /\ UNCHANGED trace
  /\ UNCHANGED <<params, constructed, subclass, query_generation, ctor_outcome, ctor_keys,
                 conv_list, query, result_list>>

\* The caller has the outcome and may keep it; the frame of get_results is gone.
Resume ==
  /\ pc = "done"
  /\ pc' = "idle"
  /\ conv_list' = <<>>
  /\ query' = Unset
  /\ result_list' = Unset
  /\ trace' = <<>>
  /\ outcome' = Pending
  /\ saved' \in {saved, [set |-> TRUE, conv |-> conv_list, out |-> outcome]}
  /\ UNCHANGED <<params, constructed, subclass, query_generation, ctor_outcome, ctor_keys>>

Init ==
  /\ params = EmptyBundle
  /\ constructed = FALSE
  /\ subclass = "none"
  /\ query_generation = Unset
  /\ ctor_outcome = "none"
  /\ ctor_keys = {}
  /\ pc = "idle"
  /\ conv_list = <<>>
  /\ query = Unset
  /\ result_list = Unset
  /\ trace = <<>>
  /\ outcome = Pending
  /\ saved = NoSaved

Next ==
  \/ \E k \in Keys : \E v \in ValuesFor(k) : OwnerSet(k, v)
  \/ \E k \in Keys : OwnerDel(k)
  \/ \E cls \in Subclasses : Construct(cls)
  \/ \E conv \in ConvLists : Call(conv)
  \/ StepGetQuery
  \/ StepLog
  \/ StepRetrieve
  \/ StepBranch
  \/ Resume

Spec == Init /\ [][Next]_vars

\* ======================================================= properties
\* Positions in trace of the calls of one operation.
EventsOf(op) == {i \in DOMAIN trace : trace[i].op = op}

\* q occurs in msg.
Contains(msg, q) ==
  \E i \in 1..(Len(msg) - Len(q) + 1) : SubSeq(msg, i, i + Len(q) - 1) = q

\* The order of the collaborator calls.
Chain == <<"get_query", "info", "retrieve", "rerank">>

\* get_results has just delivered its outcome.
Done == pc = "done"

\* C1: without a 'reranker' key, get_results returns exactly what retrieve
\* returned, retrieve was given what get_query returned for conv_list, and no
\* rerank call is made.
C1_NoRerankerReturnsRetrieveOutput ==
  (Done /\ ~HasKey(params, "reranker")) =>
    /\ EventsOf("rerank") = {}
    /\ \A i \in EventsOf("retrieve") :
         /\ outcome = trace[i].res
         /\ \E j \in EventsOf("get_query") :
              /\ trace[j].args = <<conv_list>>
              /\ trace[j].res = Return(trace[i].args[1])
    /\ outcome.kind = "return" => EventsOf("retrieve") # {}

C1_Witness ==
  /\ Done
  /\ ~HasKey(params, "reranker")
  /\ Len(trace) = 3
  /\ trace[3].res = Return(List(<<"doc1", "doc2">>))
  /\ outcome = Return(List(<<"doc1", "doc2">>))

\* C2: with a 'reranker' key, get_results delivers exactly what the rerank call
\* delivered, and rerank receives the query given to retrieve, the conv_list of
\* get_results, the list retrieve returned and the instance's bundle, in this
\* order.
C2_RerankerOutputReturned ==
  (Done /\ HasKey(params, "reranker")) =>
    /\ \A i \in EventsOf("rerank") :
         /\ outcome = trace[i].res
         /\ trace[i].on = params["reranker"]
         /\ \E j \in EventsOf("retrieve") :
              /\ trace[j].res.kind = "return"
              /\ trace[i].args = <<trace[j].args[1], conv_list, trace[j].res.val, params>>
    /\ \A j \in EventsOf("retrieve") :
         (trace[j].res.kind = "return" /\ HasMethods(params["reranker"]))
           => EventsOf("rerank") # {}
    /\ outcome.kind = "return" => EventsOf("rerank") # {}

C2_Witness ==
  /\ Done
  /\ HasKey(params, "reranker")
  /\ Len(trace) = 4
  /\ trace[3].res = Return(List(<<"doc1", "doc2">>))
  /\ trace[4].res = Return(List(<<"doc2">>))
  /\ outcome = Return(List(<<"doc2">>))

\* C3: a constructor call on a bundle without 'query_generation' ends in a
\* KeyError and leaves no instance; while that is how the last constructor call
\* ended there is no instance, no get_results call and no collaborator call.
C3_MissingQueryGenerationFailsConstruction ==
  /\ [](ctor_outcome = "KeyError" =>
          (~constructed /\ pc = "idle" /\ trace = <<>> /\ outcome = Pending))
  /\ [][(~constructed /\ ~HasKey(params, "query_generation")) => ~constructed']_vars
  /\ [][ctor_outcome' # ctor_outcome =>
          (ctor_outcome' = "KeyError" <=> ~HasKey(params, "query_generation"))]_vars

C3_Witness ==
  /\ ctor_outcome = "KeyError"
  /\ ~constructed
  /\ HasKey(params, "logger")
  /\ ~HasKey(params, "query_generation")

\* C4 as stated: without a 'logger' key every get_results call ends in a
\* KeyError, after exactly one get_query call and before retrieve and rerank
\* (read with a generator that does have a get_query).
C4_Original_AlwaysKeyError ==
  (Done /\ ~HasKey(params, "logger") /\ HasMethods(query_generation)) =>
    /\ outcome = Raise("KeyError")
    /\ Len(trace) = 1
    /\ trace[1].op = "get_query"

\* C4 amended: a bundle with 'query_generation' and without 'logger' is accepted
\* by the constructor; every get_results call then fails before retrieve and
\* rerank are invoked, with a KeyError exactly when its one get_query call
\* returned (a get_query that fails, or a generator without get_query, ends the
\* call with that error instead).
C4_MissingLoggerFailsBeforeRetrieve ==
  /\ []((Done /\ ~HasKey(params, "logger")) =>
          /\ outcome.kind = "raise"
          /\ EventsOf("retrieve") = {} /\ EventsOf("rerank") = {} /\ EventsOf("info") = {}
          /\ (outcome = Raise("KeyError")) <=>
               (Len(trace) = 1 /\ trace[1].op = "get_query" /\ trace[1].res.kind = "return"))
  /\ [][(ctor_outcome' # ctor_outcome /\ HasKey(params, "query_generation"))
          => (constructed' /\ ctor_outcome' = "ok")]_vars

C4_Witness ==
  /\ Done
  /\ "logger" \notin ctor_keys
  /\ ~HasKey(params, "logger")
  /\ outcome = Raise("KeyError")
  /\ Len(trace) = 1

\* C5: the collaborator calls of one get_results happen in the order get_query,
\* logger.info, retrieve, rerank, each after the previous one returned and none
\* twice; a call that returns made the first three exactly once and rerank
\* exactly when 'reranker' is in the bundle; the info message contains the
\* generated query.
C5_CallOrder ==
  /\ Len(trace) <= Len(Chain)
  /\ \A i \in DOMAIN trace :
       /\ trace[i].op = Chain[i]
       /\ i < Len(trace) => trace[i].res.kind = "return"
  /\ \A i \in EventsOf("info") :
       Contains(trace[i].args[1], PyStr(trace[1].res.val))
  /\ EventsOf("rerank") # {} => HasKey(params, "reranker")
  /\ (Done /\ outcome.kind = "return") =>
       Len(trace) = IF HasKey(params, "reranker") THEN 4 ELSE 3

C5_Witness ==
  /\ Done
  /\ outcome.kind = "return"
  /\ Len(trace) = 4
  /\ trace[1].res = Return(Str("weather today"))
  /\ trace[2].args = <<"New query: weather today">>

\* C6: a collaborator call that fails is the last call of its get_results, is
\* made once, and its error is what get_results delivers.
C6_FailurePropagates ==
  \A i \in DOMAIN trace :
    trace[i].res.kind = "raise" =>
      /\ i = Len(trace)
      /\ Done
      /\ outcome = trace[i].res
      /\ EventsOf(trace[i].op) = {i}

C6_Witness ==
  /\ Done
  /\ HasKey(params, "reranker")
  /\ HasMethods(params["reranker"])
  /\ Len(trace) = 3
  /\ trace[3].res = Raise("RetrieveError")
  /\ outcome = Raise("RetrieveError")

\* The calls that ran a base-class body: retrieve of a subclass that delegates
\* to Retrieval.retrieve, rerank of a ReRanker that does not override it.
BaseCalls ==
  {i \in DOMAIN trace :
     \/ trace[i].op = "retrieve" /\ trace[i].on = Obj("RetSuper")
     \/ trace[i].op = "rerank" /\ trace[i].on = Obj("rr_base")}

\* C7 as stated: running the base body of retrieve or rerank fails, and a
\* get_results whose re-ranker does not override rerank ends in an error.
C7_Original_BaseBodiesFail ==
  /\ \A i \in BaseCalls : trace[i].res.kind = "raise"
  /\ (Done /\ \E i \in BaseCalls : trace[i].op = "rerank") => outcome.kind = "raise"

\* C7 amended: the base bodies of retrieve and of ReRanker.rerank return None
\* without an error, and a get_results whose re-ranker does not override rerank
\* returns None once that rerank has been called.
C7_BaseBodiesReturnNone ==
  /\ \A i \in BaseCalls : trace[i].res = Return(None)
  /\ (Done /\ \E i \in BaseCalls : trace[i].op = "rerank") => outcome = Return(None)

C7_Witness ==
  /\ Done
  /\ Len(trace) = 4
  /\ trace[4].on = Obj("rr_base")
  /\ outcome = Return(None)

\* Every collaborator of the instance answers the same way each time.
Deterministic == subclass # "RetLive"

\* C8: from entry to return get_results changes neither the bundle, nor
\* self.query_generation, nor its conv_list; and with deterministic
\* collaborators a call delivers what an earlier call with the same conv_list
\* delivered under the same bundle.
C8_GetResultsKeepsState ==
  /\ [][(pc # "idle" \/ pc' # "idle") =>
          /\ params' = params
          /\ query_generation' = query_generation
          /\ constructed' = constructed /\ subclass' = subclass
          /\ (pc \notin {"idle", "done"} => conv_list' = conv_list)]_vars
  /\ [][(pc # "done" /\ pc' = "done" /\ Deterministic /\ saved.set /\ saved.conv = conv_list)
          => outcome' = saved.out]_vars

C8_Witness ==
  /\ Done
  /\ Deterministic
  /\ saved.set
  /\ saved.conv = conv_list
  /\ outcome = saved.out
  /\ outcome = Return(List(<<"doc1", "doc2">>))

\* C9: once retrieve has returned, the 'reranker' key of the bundle as it is
\* during the call decides alone: present with a re-ranker, rerank is called on
\* it and its outcome delivered; present with a value that has no rerank, the
\* call fails; absent, the raw list is returned.
C9_LiveKeyDecides ==
  (Done /\ Len(trace) >= 3 /\ trace[3].op = "retrieve" /\ trace[3].res.kind = "return") =>
    IF HasKey(params, "reranker")
    THEN IF HasMethods(params["reranker"])
         THEN /\ Len(trace) = 4
              /\ trace[4].op = "rerank"
              /\ trace[4].on = params["reranker"]
              /\ outcome = trace[4].res
         ELSE Len(trace) = 3 /\ outcome = Raise("AttributeError")
    ELSE Len(trace) = 3 /\ outcome = trace[3].res

C9_Witness ==
  /\ Done
  /\ "reranker" \notin ctor_keys
  /\ HasKey(params, "reranker")
  /\ params["reranker"] = None
  /\ Len(trace) = 3
  /\ trace[3].res = Return(List(<<"doc1", "doc2">>))
  /\ outcome = Raise("AttributeError")

\* C10: get_query is always called on the generator the constructor read from
\* the bundle, whatever the bundle holds under 'query_generation' later; info
\* and rerank are called on what the bundle holds during the call.
C10_CapturedQueryGeneration ==
  /\ [](/\ \A i \in EventsOf("get_query") : trace[i].on = query_generation
        /\ \A i \in EventsOf("info") :
             HasKey(params, "logger") /\ trace[i].on = params["logger"]
        /\ \A i \in EventsOf("rerank") :
             HasKey(params, "reranker") /\ trace[i].on = params["reranker"])
  /\ [][IF constructed
        THEN query_generation' = query_generation
        ELSE constructed' => query_generation' = params["query_generation"]]_vars

C10_Witness ==
  /\ Done
  /\ "logger" \notin ctor_keys
  /\ ~HasKey(params, "query_generation")
  /\ Len(trace) = 3
  /\ trace[1].on = query_generation
  /\ trace[2].on = params["logger"]
  /\ outcome.kind = "return"

====
